---- MODULE Spec2Model ----
(***************************************************************************)
(* dbhost: remote command orchestration, agent readiness polling and the   *)
(* instance lifecycle state machine.                                       *)
(*                                                                         *)
(* The repository holds three definitions of class AWSService:             *)
(*   "direct"     src/services/awsService.js        (executeCommand sends  *)
(*                the command at once)                                     *)
(*   "waitFound"  src/models/EC2Instance.js 208-510 (waits until the agent *)
(*                is listed, then sends)                                   *)
(*   "waitOnline" src/models/EC2Instance.js 533-961 (checks the instance   *)
(*                state, waits until the agent is Online, then sends)      *)
(* An activation records which of them serves it.                          *)
(***************************************************************************)
EXTENDS Integers, Sequences, FiniteSets, TLC

\* ------------------------------------------------------------------ bounds
\* largest maxAttempts a direct caller passes to waitForSsmInstance
MaxAttempts == 3
\* longest command list handed to executeCommand
MaxCommands == 2

\* latest reading of the clock (new Date()); 0 stands for an unset timestamp
MaxClock == 2

\* most entries of one databaseUsers array
MaxUsers == 2

\* longest root password
MaxLen == 2

\* -------------------------------------------------------- program constants
\* waitForSsmInstance(instanceId, maxAttempts = 40, delayMs = 10000)
DefaultMaxAttempts == 40
\* waitForSsmInstance(instanceId, maxAttempts = 20, delayMs = 15000)
EarlierDefaultMaxAttempts == 20

Instances == {"i-1", "i-2"}
Builds == {"direct", "waitFound", "waitOnline"}
CommandText == {"cmdA", "cmdB"}

\* instance states the provider reports (State.Name), "none": not known to it
ProviderStates == {"pending", "running", "shutting-down", "terminated",
                   "stopping", "stopped"}

\* ec2InstanceSchema.status: enum [...], default 'pending'
LocalStates == {"pending", "running", "stopping", "stopped", "terminating",
                "terminated"}

\* a handle no record exists for
UnknownHandle == "i-0"
Handles == Instances \cup {UnknownHandle}

\* what one DescribeInstanceInformation poll can observe
PollResults == {"absent", "offline", "online", "error"}

\* provider status vocabulary of a command invocation
InvocationStatuses == {"Pending", "InProgress", "Success", "Failed",
                       "Cancelled", "TimedOut", "Cancelling"}

\* the `commands` argument: a JavaScript array of strings, or one bare string
CommandLists == UNION {[1..n -> CommandText] : n \in 0..MaxCommands}
CommandInputs ==
    {[isArray |-> TRUE, text |-> "", items |-> s] : s \in CommandLists}
    \cup {[isArray |-> FALSE, text |-> t, items |-> <<>>] : t \in CommandText}

VARIABLES
    ssm,          \* the activation of waitForSsmInstance
    exec,         \* the activation of executeCommand
    invocation,   \* provider-side status of the command last accepted
    db,           \* the persisted EC2Instance records, by instanceId
    ec2,          \* the state the provider holds for each instance
    now,          \* the clock
    rd,           \* a GET /:instanceId or GET /list between describe and save
    last,         \* the lifecycle request answered last, as its caller saw it
    databaseUsers, \* the persisted databaseUsers array of each record
    databaseType, \* the engine of each record
    deployed,     \* the version of the user-management routes that serves
    req,          \* the user-management requests being served
    gen,          \* the activation of generateDatabaseCommands
    host,         \* the database of the host the commands run on
    boot,         \* the activation of launchInstance
    fr,           \* the fetch of a command's result being answered
    out           \* the response body sent last, and the record's secret

dispatchVars == <<ssm, exec, invocation>>
lifecycleVars == <<db, ec2, now, rd, last>>
userVars == <<databaseUsers, databaseType, deployed, req>>
genVars == <<gen, host, boot>>
answerVars == <<fr, out>>
nonDispatchVars == <<lifecycleVars, userVars, genVars, answerVars>>
nonLifecycleVars == <<dispatchVars, userVars, genVars, answerVars>>
vars == <<ssm, exec, invocation, db, ec2, now, rd, last, databaseUsers,
          databaseType, deployed, req, gen, host, boot, fr, out>>

\* ------------------------------------------------------- readiness tracker

ssmIdle ==
    [pc |-> "idle", caller |-> "none", build |-> "waitOnline", id |-> "i-1",
     attempt |-> 0, maxAttempts |-> 0, polls |-> 0, sleeps |-> 0, diags |-> 0,
     lastPoll |-> "none", sleptAfterPoll |-> FALSE, firstOnline |-> 0,
     error |-> "none"]

\* off by one: while (attempt <= maxAttempts)
LoopContinuesInclusive(attempt, maxAttempts) == attempt <= maxAttempts

\* while (attempt < maxAttempts)
LoopContinues(attempt, maxAttempts) == attempt < maxAttempts

\* the default maxAttempts executeCommand's call relies on
defaultMaxAttempts(build) ==
    IF build = "waitOnline" THEN DefaultMaxAttempts ELSE EarlierDefaultMaxAttempts

\* a poll that takes any listed handle for a ready one, online or not
PollVerdictListed(build, r) ==
    CASE r \in {"online", "offline"} -> "ready"
      [] r = "error" /\ build # "waitOnline" -> "throw"
      [] OTHER -> "retry"

\* what one poll decides: "ready" (return true), "retry" (count the attempt
\* and go on) or "throw" (the poll's error leaves the function).
\*   waitOnline: list filtered to the handle; ready iff length > 0 and
\*               PingStatus === 'Online'; the try/catch turns an error into
\*               a counted attempt.
\*   waitFound:  ready iff some listed InstanceId equals the handle, whatever
\*               its ping status; no try/catch.
PollVerdict(build, r) ==
    IF build = "waitOnline"
    THEN IF r = "online" THEN "ready" ELSE "retry"
    ELSE CASE r = "error" -> "throw"
           [] r = "absent" -> "retry"
           [] OTHER -> "ready"

\* the sleep after a counted attempt: waitOnline sleeps only if another
\* attempt follows, waitFound after every attempt
SleepsAfter(build, attempt, maxAttempts) ==
    IF build = "waitOnline" THEN attempt < maxAttempts ELSE TRUE

\* entry into waitForSsmInstance
waitForSsmInstance(caller, build, id, maxAttempts) ==
    [ssmIdle EXCEPT !.pc = IF LoopContinues(0, maxAttempts)
                           THEN "polling" ELSE "exhausted",
                    !.caller = caller, !.build = build, !.id = id,
                    !.maxAttempts = maxAttempts]

\* one iteration of the polling loop with poll observation r
PollStep(w, r) ==
    LET v == PollVerdict(w.build, r)
        seen == [w EXCEPT !.polls = @ + 1, !.lastPoll = r,
                          !.sleptAfterPoll = FALSE,
                          !.firstOnline = IF r = "online" /\ @ = 0
                                          THEN w.polls + 1 ELSE @]
    IN CASE v = "ready" -> [seen EXCEPT !.pc = "ready"]
         [] v = "throw" -> [seen EXCEPT !.pc = "failed", !.error = "PollError"]
         [] OTHER ->
              LET a == w.attempt + 1
                  slept == SleepsAfter(w.build, a, w.maxAttempts)
              IN [seen EXCEPT !.attempt = a,
                              !.sleeps = IF slept THEN @ + 1 ELSE @,
                              !.sleptAfterPoll = slept,
                              !.pc = IF LoopContinues(a, w.maxAttempts)
                                     THEN "polling" ELSE "exhausted"]

\* after the loop: waitOnline fetches the unfiltered diagnostic list inside
\* its own try/catch, then both builds throw "SSM agent not ready"
GiveUpStep(w) ==
    [w EXCEPT !.diags = IF w.build = "waitOnline" THEN @ + 1 ELSE @,
              !.pc = "failed", !.error = "AgentNotReady"]

\* ------------------------------------------------------- command dispatcher

execIdle ==
    [pc |-> "idle", build |-> "waitOnline", id |-> "i-1",
     commands |-> [isArray |-> TRUE, text |-> "", items |-> <<>>],
     providerState |-> "none", ec2Queries |-> 0, sends |-> 0,
     sent |-> <<>>, target |-> "none", error |-> "none", handle |-> "none"]

\* only the head of the list reaches the request
commandsParameterHead(c) ==
    IF c.isArray
    THEN (IF c.items = <<>> THEN <<>> ELSE <<c.items[1]>>)
    ELSE <<c.text>>

\* Parameters: { commands: Array.isArray(commands) ? commands : [commands] }
commandsParameter(c) == IF c.isArray THEN c.items ELSE <<c.text>>

\* the guard of executeCommand before any remote-execution call: the error it
\* throws, or "none" to go on.  Only the waitOnline build describes the
\* instance; `described` is FALSE when that describe call itself fails.
RunningCheck(build, state, described) ==
    IF build # "waitOnline" THEN "none"
    ELSE IF ~described THEN "ProviderAPIError"
    ELSE IF state = "none" THEN "InstanceNotFound"
    ELSE IF state # "running" THEN "NotRunning"
    ELSE "none"

\* the failed wait is swallowed and the command sent all the same
AfterWaitSwallowed(x, w) == [x EXCEPT !.pc = "send"]

\* await this.waitForSsmInstance(instanceId): where executeCommand goes once
\* the wait is over; a failure leaves executeCommand as the same error
AfterWait(x, w) ==
    IF w.pc = "failed"
    THEN [x EXCEPT !.pc = "failed", !.error = w.error]
    ELSE [x EXCEPT !.pc = "send"]

\* this.ssmClient.send(new SendCommandCommand(...)); return result.Command
SendStep(x, accepted) ==
    [x EXCEPT !.sends = @ + 1,
              !.sent = commandsParameter(x.commands),
              !.target = x.id,
              !.pc = IF accepted THEN "returned" ELSE "failed",
              !.error = IF accepted THEN "none" ELSE "ProviderAPIError",
              !.handle = IF accepted THEN "cmd-1" ELSE "none"]

\* no call is in progress and none has left a result behind
NoActivation ==
    /\ exec.pc = "idle"
    /\ ssm.pc = "idle"

\* a caller invokes executeCommand(instanceId, commands)
executeCommand(build, id, c, state, described) ==
    /\ NoActivation
    /\ LET err == RunningCheck(build, state, described)
           x == [execIdle EXCEPT !.build = build, !.id = id, !.commands = c,
                                 !.providerState = state,
                                 !.ec2Queries = IF build = "waitOnline"
                                                THEN 1 ELSE 0]
       IN IF err # "none"
          THEN /\ exec' = [x EXCEPT !.pc = "failed", !.error = err]
               /\ ssm' = ssmIdle
          ELSE IF build = "direct"
          THEN /\ exec' = [x EXCEPT !.pc = "send"]
               /\ ssm' = ssmIdle
          ELSE /\ exec' = [x EXCEPT !.pc = "wait"]
               /\ ssm' = waitForSsmInstance("exec", build, id,
                                            defaultMaxAttempts(build))
    /\ invocation' = "none"
    /\ UNCHANGED nonDispatchVars

\* a caller invokes waitForSsmInstance(instanceId, maxAttempts) itself
AwaitReady(build, id, maxAttempts) ==
    /\ NoActivation
    /\ build # "direct"
    /\ ssm' = waitForSsmInstance("direct", build, id, maxAttempts)
    /\ exec' = execIdle
    /\ invocation' = "none"
    /\ UNCHANGED nonDispatchVars

Poll(r) ==
    /\ ssm.pc = "polling"
    /\ ssm' = PollStep(ssm, r)
    /\ UNCHANGED <<exec, invocation, nonDispatchVars>>

GiveUp ==
    /\ ssm.pc = "exhausted"
    /\ ssm' = GiveUpStep(ssm)
    /\ UNCHANGED <<exec, invocation, nonDispatchVars>>

Resume ==
    /\ exec.pc = "wait"
    /\ ssm.pc \in {"ready", "failed"}
    /\ exec' = AfterWait(exec, ssm)
    /\ UNCHANGED <<ssm, invocation, nonDispatchVars>>

Send(accepted) ==
    /\ exec.pc = "send"
    /\ exec' = SendStep(exec, accepted)
    /\ invocation' = IF accepted THEN "Pending" ELSE "none"
    /\ UNCHANGED <<ssm, nonDispatchVars>>

\* the remote agent works on the accepted command
InvocationNext(s) ==
    CASE s = "Pending" -> {"InProgress", "Cancelling"}
      [] s = "InProgress" -> {"Success", "Failed", "TimedOut", "Cancelling"}
      [] s = "Cancelling" -> {"Cancelled"}
      [] OTHER -> {}

AgentRuns ==
    /\ invocation \in InvocationStatuses
    /\ \E s \in InvocationNext(invocation) : invocation' = s
    /\ UNCHANGED <<ssm, exec, nonDispatchVars>>

\* the caller has taken the outcome (the returned Command or the error)
Settle ==
    /\ exec.pc \in {"idle", "returned", "failed"}
    /\ ssm.pc \in {"idle", "ready", "failed"}
    /\ exec.pc # "idle" \/ ssm.pc # "idle"
    /\ exec' = execIdle
    /\ ssm' = ssmIdle
    /\ invocation' = "none"
    /\ UNCHANGED nonDispatchVars

DispatchInit ==
    /\ ssm = ssmIdle
    /\ exec = execIdle
    /\ invocation = "none"


NextDispatch ==
    \/ \E b \in Builds, i \in Instances, c \in CommandInputs,
          s \in ProviderStates \cup {"none"}, d \in BOOLEAN :
          executeCommand(b, i, c, s, d)
    \/ \E b \in Builds, i \in Instances, m \in 0..MaxAttempts :
          AwaitReady(b, i, m)
    \/ \E r \in PollResults : Poll(r)
    \/ GiveUp
    \/ Resume
    \/ \E a \in BOOLEAN : Send(a)
    \/ AgentRuns
    \/ Settle


\* ------------------------------------------------ lifecycle state machine
\* The provider answers as the EC2 API does: StartInstances is accepted for a
\* stopped instance (and, without effect, for a pending or running one),
\* StopInstances for a pending or running one (without effect for a stopping
\* or stopped one), TerminateInstances for every instance; any call can also
\* fail without effect.  Transitional states complete on their own.

lastNone ==
    [op |-> "none", id |-> UnknownHandle, code |-> 0, before |-> "none",
     after |-> "none", calls |-> <<>>, at |-> 0, termBefore |-> 0,
     termAfter |-> 0]

rdIdle ==
    [pc |-> "idle", op |-> "none", id |-> UnknownHandle,
     doc |-> [i \in Instances |-> "none"],
     aws |-> [i \in Instances |-> "none"],
     code |-> 0, failed |-> FALSE, stored |-> {},
     served |-> [i \in Instances |-> "none"]]

\* no answer is waiting to be read by its caller
Quiet ==
    /\ last.op = "none"
    /\ rd.pc # "done"
    /\ \A r \in DOMAIN req : req[r].pc = "idle"

ProviderAccepts(op, state) ==
    CASE op = "start" -> state \in {"stopped", "pending", "running"}
      [] op = "stop" -> state \in {"pending", "running", "stopping", "stopped"}
      [] OTHER -> TRUE

ProviderAfter(op, state) ==
    CASE op = "start" -> IF state = "stopped" THEN "pending" ELSE state
      [] op = "stop" -> IF state \in {"pending", "running"}
                        THEN "stopping" ELSE state
      [] OTHER -> IF state = "terminated" THEN state ELSE "shutting-down"

ProviderCompletes(state) ==
    CASE state = "pending" -> "running"
      [] state = "stopping" -> "stopped"
      [] state = "shutting-down" -> "terminated"
      [] OTHER -> state

\* a start route that lost its guard
StartGuardMissing(status) == FALSE

\* if (instance.status === 'running') return res.status(400)
StartGuard(status) == status = "running"

\* if (instance.status === 'stopped') return res.status(400)
StopGuard(status) == status = "stopped"

\* a terminate route that turns away what is already gone
TerminateGuardOnTerminated(status) == status = "terminated"

\* the terminate route checks nothing about the status
TerminateGuard(status) == FALSE

Rejects(op, status) ==
    CASE op = "start" -> StartGuard(status)
      [] op = "stop" -> StopGuard(status)
      [] OTHER -> TerminateGuard(status)

\* routes that write the state the action aims at instead of the
\* transitional one
StatusWrittenFinal(op) ==
    CASE op = "start" -> "running"
      [] op = "stop" -> "stopped"
      [] OTHER -> "terminating"

\* instance.status = 'pending' | 'stopping' | 'terminating'
StatusWritten(op) ==
    CASE op = "start" -> "pending"
      [] op = "stop" -> "stopping"
      [] OTHER -> "terminating"

\* instance.terminationTime = new Date(), in the terminate route only
TerminationTimeWritten(op, old, clock) ==
    IF op = "terminate" THEN clock ELSE old

\* routes that store the new status before they call the provider
StoredWhenCallFailsOptimistic(op, rec, clock) ==
    [rec EXCEPT !.status = StatusWritten(op),
                !.terminationTime = TerminationTimeWritten(op, @, clock)]

\* what the record holds when the provider call has thrown: the assignments
\* and instance.save() come after the awaited call, so the catch is reached
\* with nothing stored
StoredWhenCallFails(op, rec, clock) == rec

\* POST /:instanceId/start, POST /:instanceId/stop, DELETE /:instanceId.
\* `fails`: the provider call throws although the provider would accept it.
LifecycleRoute(op, id, fails) ==
    /\ Quiet
    /\ UNCHANGED <<now, rd, nonLifecycleVars>>
    /\ IF id \notin Instances
       THEN /\ last' = [lastNone EXCEPT !.op = op, !.id = id, !.code = 404,
                                        !.at = now]
            /\ UNCHANGED <<db, ec2>>
       ELSE LET rec == db[id]
                seen == [lastNone EXCEPT !.op = op, !.id = id, !.at = now,
                                         !.before = rec.status,
                                         !.termBefore = rec.terminationTime]
            IN IF Rejects(op, rec.status)
               THEN /\ last' = [seen EXCEPT !.code = 400,
                                            !.after = rec.status,
                                            !.termAfter = rec.terminationTime]
                    /\ UNCHANGED <<db, ec2>>
               ELSE IF fails \/ ~ProviderAccepts(op, ec2[id])
               THEN /\ db' = [db EXCEPT
                                ![id] = StoredWhenCallFails(op, rec, now)]
                    /\ last' = [seen EXCEPT
                                  !.code = 500, !.calls = <<op>>,
                                  !.after = db'[id].status,
                                  !.termAfter = db'[id].terminationTime]
                    /\ UNCHANGED ec2
               ELSE /\ ec2' = [ec2 EXCEPT ![id] = ProviderAfter(op, @)]
                    /\ db' = [db EXCEPT
                                ![id].status = StatusWritten(op),
                                ![id].terminationTime =
                                    TerminationTimeWritten(op, @, now)]
                    /\ last' = [seen EXCEPT
                                  !.code = 200, !.calls = <<op>>,
                                  !.after = db'[id].status,
                                  !.termAfter = db'[id].terminationTime]

\* the caller has read the answer
Answered ==
    /\ last.op # "none"
    /\ last' = lastNone
    /\ UNCHANGED <<db, ec2, now, rd, nonLifecycleVars>>

\* what instance.save() does with a status assigned from the provider:
\* "invalid" (not in the schema's enum: the save throws), "write" (the path
\* is modified and stored) or "keep" (same value as loaded: nothing stored)
SaveVerdict(loaded, reported) ==
    IF reported \notin LocalStates THEN "invalid"
    ELSE IF reported # loaded THEN "write" ELSE "keep"

\* a read without its inner try/catch: the describe error reaches the outer
\* catch, which answers 500
ReadCodeRethrown(described) == IF described THEN 200 ELSE 500

\* both reads end in res.json(...): the inner catch only logs the error
ReadCode(described) == 200

\* the documents a read has loaded: all of them (list) or the one asked for
Loaded(op, id, f) ==
    [i \in Instances |-> IF op = "list" \/ i = id THEN f[i] ELSE "none"]

\* GET /:instanceId and GET /list, first part: the records are loaded and
\* getInstanceDetails has answered (or thrown: then the read is over, the
\* loaded records are served and nothing is stored)
ReadBegin(op, id, described) ==
    /\ Quiet
    /\ rd.pc = "idle"
    /\ op = "get" => id \in Instances
    /\ op = "list" => id = UnknownHandle
    /\ LET docs == Loaded(op, id, [i \in Instances |-> db[i].status])
       IN IF described
          THEN rd' = [rdIdle EXCEPT !.pc = "fetched", !.op = op, !.id = id,
                                    !.doc = docs, !.aws = Loaded(op, id, ec2)]
          ELSE rd' = [rdIdle EXCEPT !.pc = "done", !.op = op, !.id = id,
                                    !.doc = docs, !.failed = TRUE,
                                    !.code = ReadCode(described),
                                    !.served = docs]
    /\ UNCHANGED <<db, ec2, now, last, nonLifecycleVars>>

\* the instances a read saves, in the order it saves them
RECURSIVE SavedBy(_, _)
SavedBy(r, todo) ==
    IF todo = <<>> THEN {}
    ELSE LET i == Head(todo)
             v == IF r.aws[i] = "none" THEN "skip"
                  ELSE SaveVerdict(r.doc[i], r.aws[i])
         IN IF v = "invalid" THEN {}
            ELSE (IF v = "write" THEN {i} ELSE {}) \cup SavedBy(r, Tail(todo))

\* find(query).sort({ createdAt: -1 })
ListOrder == <<"i-2", "i-1">>

\* the instances whose in-memory document a read has assigned to: every one
\* up to and including the one whose save threw
RECURSIVE AssignedBy(_, _)
AssignedBy(r, todo) ==
    IF todo = <<>> THEN {}
    ELSE LET i == Head(todo)
         IN IF r.aws[i] = "none" THEN AssignedBy(r, Tail(todo))
            ELSE IF SaveVerdict(r.doc[i], r.aws[i]) = "invalid" THEN {i}
            ELSE {i} \cup AssignedBy(r, Tail(todo))

\* second part: instance.status = awsInstance.state; await instance.save();
\* then res.json with the documents as they are in memory
ReadSave ==
    /\ rd.pc = "fetched"
    /\ last.op = "none"
    /\ LET todo == IF rd.op = "get" THEN <<rd.id>> ELSE ListOrder
           w == SavedBy(rd, todo)
           a == AssignedBy(rd, todo)
       IN /\ db' = [i \in Instances |->
                      IF i \in w THEN [db[i] EXCEPT !.status = rd.aws[i]]
                      ELSE db[i]]
          /\ rd' = [rd EXCEPT !.pc = "done", !.code = ReadCode(TRUE),
                              !.stored = w,
                              !.served = [i \in Instances |->
                                            IF i \in a THEN rd.aws[i]
                                            ELSE rd.doc[i]]]
    /\ UNCHANGED <<ec2, now, last, nonLifecycleVars>>

\* the caller has read the answer of the read
ReadAnswered ==
    /\ rd.pc = "done"
    /\ rd' = rdIdle
    /\ UNCHANGED <<db, ec2, now, last, nonLifecycleVars>>

\* a transitional provider state completes
ProviderStep(i) ==
    /\ Quiet
    /\ ProviderCompletes(ec2[i]) # ec2[i]
    /\ ec2' = [ec2 EXCEPT ![i] = ProviderCompletes(@)]
    /\ UNCHANGED <<db, now, rd, last, nonLifecycleVars>>

Tick ==
    /\ Quiet
    /\ now < MaxClock
    /\ now' = now + 1
    /\ UNCHANGED <<db, ec2, rd, last, nonLifecycleVars>>

\* POST /create has stored each record with the schema's default status and
\* the provider has just launched the instance
LifecycleInit ==
    /\ db = [i \in Instances |-> [status |-> "pending", terminationTime |-> 0]]
    /\ ec2 = [i \in Instances |-> "pending"]
    /\ now = 1
    /\ rd = rdIdle
    /\ last = lastNone

NextLifecycle ==
    \/ \E op \in {"start", "stop", "terminate"}, i \in Handles,
          f \in BOOLEAN : LifecycleRoute(op, i, f)
    \/ Answered
    \/ \E op \in {"get", "list"}, i \in Handles, d \in BOOLEAN :
          ReadBegin(op, i, d)
    \/ ReadSave
    \/ ReadAnswered
    \/ \E i \in Instances : ProviderStep(i)
    \/ Tick

\* ------------------------------------------------------- user management
\* POST, PUT and DELETE /:instanceId/users.  Two versions of the routes are in
\* the sources: "current" (routes/database.js) and "earlier" (routes/logs.js
\* 957-1096).  A request is served in three steps, the points where the
\* handler awaits: the record is loaded and checked, executeCommand is
\* attempted, the record is saved and the answer sent.  Requests of several
\* callers interleave at these points.  The document's save follows the
\* array versioning of the ODM: a push is applied to the stored array as it
\* is; replacing the array or writing into an element is refused when the
\* array was pushed to or replaced since the document was loaded.

Engines == {"postgresql", "mysql"}
UserBuilds == {"current", "earlier"}
Callers == {1, 2}
masterUsername == "dbadmin"
Usernames == {masterUsername, "app"}
UserHandles == {"i-1", UnknownHandle}

DEFAULT_PRIVILEGES == <<"SELECT", "INSERT", "UPDATE", "DELETE">>

\* the default of the parameter of addDatabaseUser
addDatabaseUserDefault == <<"SELECT">>

validPrivileges(engine) ==
    IF engine = "postgresql"
    THEN {"SELECT", "INSERT", "UPDATE", "DELETE", "TRUNCATE", "REFERENCES",
          "TRIGGER"}
    ELSE {"SELECT", "INSERT", "UPDATE", "DELETE", "CREATE", "DROP", "ALTER",
          "INDEX"}

invalidPrivileges(engine, requested) ==
    {requested[k] : k \in DOMAIN requested} \ validPrivileges(engine)

\* what a request body can carry: (privileges given?, privileges, password)
\* "GRANT" is a privilege neither engine's list has
CreateBodies ==
    {[given |-> FALSE, privileges |-> <<>>, password |-> "pw1"],
     [given |-> TRUE, privileges |-> <<"GRANT">>, password |-> "pw1"]}
UpdateBodies ==
    {[given |-> TRUE, privileges |-> <<"SELECT">>, password |-> "pw2"],
     [given |-> TRUE, privileges |-> <<"SELECT">>, password |-> ""],
     [given |-> TRUE, privileges |-> <<"GRANT">>, password |-> ""],
     [given |-> FALSE, privileges |-> <<>>, password |-> ""]}
DeleteBodies == {[given |-> FALSE, privileges |-> <<>>, password |-> ""]}

\* the bodies sent to a route; the earlier create route, which checks no
\* privilege, is sent none
Bodies(op, build) ==
    CASE op = "create" ->
           IF build = "current" THEN CreateBodies
           ELSE {b \in CreateBodies : ~b.given}
      [] op = "update" -> UpdateBodies
      [] OTHER -> DeleteBodies

reqIdle ==
    [pc |-> "idle", op |-> "none", build |-> "none", id |-> UnknownHandle,
     username |-> "", password |-> "", given |-> FALSE, privileges |-> <<>>,
     index |-> 0, stale |-> FALSE, ok |-> FALSE, sends |-> 0, code |-> 0,
     error |-> "none", wrote |-> FALSE]

\* instance.databaseUsers.findIndex(u => u.username === username), from 1;
\* 0 when there is none
findIndex(list, username) ==
    IF \E k \in 1..Len(list) : list[k].username = username
    THEN CHOOSE k \in 1..Len(list) :
             /\ list[k].username = username
             /\ \A j \in 1..(k - 1) : list[j].username # username
    ELSE 0

\* this.databaseUsers.push({ username, password, privileges })
addDatabaseUser(list, username, password, privileges) ==
    Append(list, [username |-> username, password |-> password,
                  privileges |-> privileges])

\* this.databaseUsers.filter(user => user.username !== username)
removeDatabaseUser(list, username) ==
    LET keep(u) == u.username # username IN SelectSeq(list, keep)

\* a delete route without the master check
MasterGuardMissing(username, master) == FALSE

\* if (username === instance.masterUsername) return res.status(400)
MasterGuard(username, master) == username = master

\* does the delete route answer 404 for a name that is not listed?  The
\* earlier route has no such check.
ListedGuard(build) == build = "current"

\* the privileges a create request asks for
requestedPrivileges(build, given, privileges) ==
    IF given THEN privileges ELSE DEFAULT_PRIVILEGES

\* the privileges a create request stores
storedPrivileges(build, given, privileges) ==
    IF build = "current" THEN requestedPrivileges(build, given, privileges)
    ELSE IF given THEN privileges ELSE addDatabaseUserDefault

Verdict(code, error) == [code |-> code, error |-> error]

\* the checks of a route between findOne and executeCommand, in the order of
\* the code: the answer that ends the request, or code 0 to go on
Precheck(op, build, id, username, body) ==
    IF op = "update" /\ ~body.given /\ body.password = ""
    THEN Verdict(400, "NothingToUpdate")
    ELSE IF id \notin Instances THEN Verdict(404, "InstanceNotFound")
    ELSE IF db[id].status # "running" THEN Verdict(400, "NotRunning")
    ELSE LET index == findIndex(databaseUsers[id], username)
             engine == databaseType[id]
         IN CASE op = "create" ->
                   IF index # 0 THEN Verdict(409, "UserExists")
                   ELSE IF /\ build = "current"
                           /\ invalidPrivileges(engine,
                                  requestedPrivileges(build, body.given,
                                                      body.privileges)) # {}
                   THEN Verdict(400, "InvalidPrivileges")
                   ELSE Verdict(0, "none")
              [] op = "update" ->
                   IF index = 0 THEN Verdict(404, "UserNotFound")
                   ELSE IF /\ body.given
                           /\ invalidPrivileges(engine, body.privileges) # {}
                   THEN Verdict(400, "InvalidPrivileges")
                   ELSE Verdict(0, "none")
              [] OTHER ->
                   IF MasterGuard(username, masterUsername)
                   THEN Verdict(400, "MasterUser")
                   ELSE IF ListedGuard(build) /\ index = 0
                   THEN Verdict(404, "UserNotFound")
                   ELSE Verdict(0, "none")

\* the entry of a PUT request after its assignments
updatedEntry(u, q) ==
    [u EXCEPT !.privileges = IF q.given THEN q.privileges ELSE @,
              !.password = IF q.password # "" THEN q.password ELSE @]

\* a PUT route whose assignments reach the stored array at once
StoredByAssignmentWritten(op, list, index, q) ==
    IF op = "update" /\ index # 0
    THEN [list EXCEPT ![index] = updatedEntry(@, q)]
    ELSE list

\* instance.databaseUsers[userIndex].privileges = privileges and
\* .password = password change the loaded document; the stored array is as
\* it was until instance.save()
StoredByAssignment(op, list, index, q) == list

\* no answer is waiting to be read, and no read is under way
UsersReady ==
    /\ last.op = "none"
    /\ rd.pc = "idle"
    /\ \A c \in Callers : req[c].pc # "done"

\* create requests that may still push an entry
PendingCreates(id) ==
    {q \in Callers : /\ req[q].op = "create"
                     /\ req[q].id = id
                     /\ req[q].pc \in {"loaded", "dispatched"}}

\* first step of a request: findOne and the checks.  A request that the
\* checks turn away reads the record and changes nothing; it is followed
\* here when no other request is being served.  The second caller comes in
\* while the first is being served, and creates users.
UserBegin(r, op, build, id, username, body) ==
    /\ req[r].pc = "idle"
    /\ UsersReady
    /\ r = 2 => req[1].pc # "idle" /\ op = "create"
    /\ build = deployed
    /\ body \in Bodies(op, build)
    /\ op = "update" => build = "current"
    /\ op = "create" /\ id \in Instances =>
           Len(databaseUsers[id]) + Cardinality(PendingCreates(id)) < MaxUsers
    /\ LET v == Precheck(op, build, id, username, body)
           seen == [reqIdle EXCEPT !.op = op, !.build = build, !.id = id,
                                   !.username = username,
                                   !.password = body.password,
                                   !.given = body.given,
                                   !.privileges = body.privileges]
       IN IF v.code # 0
          THEN /\ \A c \in Callers : req[c].pc = "idle"
               /\ req' = [req EXCEPT ![r] =
                            [seen EXCEPT !.pc = "done", !.code = v.code,
                                         !.error = v.error]]
               /\ UNCHANGED databaseUsers
          ELSE LET index == findIndex(databaseUsers[id], username)
               IN /\ req' = [req EXCEPT ![r] =
                               [seen EXCEPT !.pc = "loaded",
                                            !.index = index]]
                  /\ databaseUsers' =
                         [databaseUsers EXCEPT ![id] =
                            StoredByAssignment(op, @, index, body)]
    /\ UNCHANGED <<databaseType, deployed, lifecycleVars, dispatchVars,
                   genVars, answerVars>>

\* second step: awsService.executeCommand(instanceId, commands) is called
UserDispatch(r) ==
    /\ req[r].pc = "loaded"
    /\ UsersReady
    /\ req' = [req EXCEPT ![r].pc = "dispatched", ![r].sends = @ + 1]
    /\ UNCHANGED <<databaseUsers, databaseType, deployed, lifecycleVars,
                   dispatchVars, genVars, answerVars>>

\* catch (ssmError): if (instance.databaseType === 'postgresql') the user is
\* added all the same; the earlier route has no such catch
RecordsOnFailure(build, engine) ==
    build = "current" /\ engine = "postgresql"

Outcome(list, code, error, bump) ==
    [list |-> list, code |-> code, error |-> error, bump |-> bump]

\* third step of a request q on the stored array `list`: the array stored
\* afterwards, the answer, and whether the array's version was incremented
SaveOutcome(q, list, engine) ==
    CASE q.op = "create" ->
           IF q.ok \/ RecordsOnFailure(q.build, engine)
           THEN Outcome(addDatabaseUser(list, q.username, q.password,
                            storedPrivileges(q.build, q.given, q.privileges)),
                        IF q.ok THEN 201 ELSE 202,
                        IF q.ok THEN "none" ELSE "DispatchFailed", TRUE)
           ELSE Outcome(list, 500, "DispatchFailed", FALSE)
      [] q.op = "update" ->
           IF ~q.ok THEN Outcome(list, 500, "DispatchFailed", FALSE)
           ELSE IF q.stale THEN Outcome(list, 500, "VersionError", FALSE)
           ELSE Outcome([list EXCEPT ![q.index] = updatedEntry(@, q)],
                        200, "none", FALSE)
      [] OTHER ->
           IF ~q.ok THEN Outcome(list, 500, "DispatchFailed", FALSE)
           ELSE IF q.index = 0 THEN Outcome(list, 200, "none", FALSE)
           ELSE IF q.stale THEN Outcome(list, 500, "VersionError", FALSE)
           ELSE Outcome(removeDatabaseUser(list, q.username), 200, "none",
                        TRUE)

\* third step: executeCommand has returned the command (ok) or thrown; the
\* record is saved, or not, and the answer sent
UserSave(r, ok) ==
    /\ req[r].pc = "dispatched"
    /\ UsersReady
    /\ LET q == [req[r] EXCEPT !.ok = ok]
           o == SaveOutcome(q, databaseUsers[q.id], databaseType[q.id])
       IN /\ databaseUsers' = [databaseUsers EXCEPT ![q.id] = o.list]
          /\ req' = [c \in Callers |->
                       IF c = r
                       THEN [q EXCEPT !.pc = "done", !.code = o.code,
                                      !.error = o.error,
                                      !.wrote = (o.list # databaseUsers[q.id])]
                       ELSE IF /\ o.bump
                               /\ req[c].id = q.id
                               /\ req[c].pc \in {"loaded", "dispatched"}
                       THEN [req[c] EXCEPT !.stale = TRUE]
                       ELSE req[c]]
    /\ UNCHANGED <<databaseType, deployed, lifecycleVars, dispatchVars,
                   genVars, answerVars>>

\* the caller has read the answer
UserAnswered(r) ==
    /\ req[r].pc = "done"
    /\ req' = [req EXCEPT ![r] = reqIdle]
    /\ UNCHANGED <<databaseUsers, databaseType, deployed, lifecycleVars,
                   dispatchVars, genVars, answerVars>>

\* POST /create stores the record with its engine and no database user
UsersInit(engine, build) ==
    /\ databaseUsers = [i \in Instances |-> <<>>]
    /\ databaseType = [i \in Instances |-> engine]
    /\ deployed = build
    /\ req = [c \in Callers |-> reqIdle]

\* user management of one instance, with the lifecycle steps that bring its
\* record to running and away from it
NextUsers ==
    \/ \E r \in Callers, op \in {"create", "update", "delete"},
          b \in UserBuilds, i \in UserHandles, u \in Usernames,
          body \in CreateBodies \cup UpdateBodies \cup DeleteBodies :
          UserBegin(r, op, b, i, u, body)
    \/ \E r \in Callers : UserDispatch(r)
    \/ \E r \in Callers, ok \in BOOLEAN : UserSave(r, ok)
    \/ \E r \in Callers : UserAnswered(r)
    \/ \E op \in {"start", "stop"} : LifecycleRoute(op, "i-1", FALSE)
    \/ Answered
    \/ ReadBegin("get", "i-1", TRUE)
    \/ ReadSave
    \/ ReadAnswered
    \/ ProviderStep("i-1")

\* ------------------------------------------------------- command generator
\* generateDatabaseCommands of routes/database.js ("current") and of
\* routes/logs.js 367-421 ("earlier"), the database-log commands of GET
\* /:instanceId/database (routes/logs.js), and generateUserData.  A command
\* is the template it was built from (stmt) with the values put into it; a
\* password is a sequence of characters.

GeneratorBuilds == {"current", "earlier"}
EngineInputs == Engines \cup {"mongodb"}
Actions ==
    {"create_user", "delete_user", "change_password", "grant_privileges",
     "list_users"}
ActionInputs == Actions \cup {"rename_user"}
\* characters, by name: a letter and the four the escaping is about
PasswordChars == {"a", "dollar", "quote", "backtick", "backslash"}
Passwords == UNION {[1..n -> PasswordChars] : n \in 1..MaxLen}

\* process.env.DEFAULT_DB_PASSWORD
DEFAULT_DB_PASSWORD == <<"a", "dollar">>

\* the parameters handed to the generator; masterPassword <<>> is a call
\* that passes none
ParamInputs ==
    [username : {"app"}, password : {"pw1"},
     privileges : {<<"SELECT">>, <<"SELECT", "INSERT">>},
     masterPassword : Passwords \cup {<<>>}]

\* the characters the regular expression of safeRootPassword matches
Matched == {"quote", "dollar", "backtick", "backslash"}

\* rootPassword.replace(..., '\\$1') with the g flag: every match gets a
\* backslash before it
RECURSIVE replace(_)
replace(p) ==
    IF p = <<>> THEN <<>>
    ELSE (IF Head(p) \in Matched THEN <<"backslash", Head(p)>> ELSE <<Head(p)>>)
         \o replace(Tail(p))

\* masterPassword || process.env.DEFAULT_DB_PASSWORD
rootPassword(masterPassword) ==
    IF masterPassword # <<>> THEN masterPassword ELSE DEFAULT_DB_PASSWORD

\* what the mysql commands of a generator put after -p
safeRootPassword(build, masterPassword) ==
    IF build = "current" THEN replace(rootPassword(masterPassword))
    ELSE DEFAULT_DB_PASSWORD

Command(run, stmt, username, embedded) ==
    [run |-> run, stmt |-> stmt, username |-> username, embedded |-> embedded]

Returned(commands) == [kind |-> "commands", commands |-> commands]
Threw(error) == [kind |-> error, commands |-> <<>>]
Undefined == [kind |-> "undefined", commands |-> <<>>]

postgresqlCommands(build, action, username) ==
    LET psql(stmt) == Command("postgres", stmt, username, <<>>)
    IN IF build = "current"
       THEN CASE action = "create_user" ->
                   <<psql("createuser"), psql("ALTER ROLE WITH PASSWORD"),
                     psql("GRANT ON ALL TABLES"), psql("GRANT USAGE ON SCHEMA"),
                     psql("ALTER DEFAULT PRIVILEGES GRANT")>>
              [] action = "delete_user" ->
                   <<psql("REVOKE ALL PRIVILEGES ON ALL TABLES"),
                     psql("REVOKE USAGE ON SCHEMA"), psql("dropuser")>>
              [] action = "change_password" ->
                   <<psql("ALTER ROLE WITH PASSWORD")>>
              [] action = "grant_privileges" ->
                   <<psql("GRANT ON ALL TABLES"),
                     psql("ALTER DEFAULT PRIVILEGES GRANT")>>
              [] OTHER -> <<psql("SELECT FROM pg_user")>>
       ELSE CASE action = "create_user" ->
                   <<psql("CREATE USER WITH PASSWORD"),
                     psql("GRANT ON ALL TABLES"), psql("GRANT USAGE ON SCHEMA")>>
              [] action = "delete_user" -> <<psql("DROP USER IF EXISTS")>>
              [] action = "change_password" ->
                   <<psql("ALTER USER WITH PASSWORD")>>
              [] action = "grant_privileges" -> <<psql("GRANT ON ALL TABLES")>>
              [] OTHER -> <<psql("SELECT FROM pg_user")>>

mysqlCommands(build, action, username, masterPassword) ==
    LET mysql(stmt) == Command("mysql", stmt, username,
                               safeRootPassword(build, masterPassword))
    IN CASE action = "create_user" ->
              <<mysql("CREATE USER"), mysql("GRANT ON *.*"),
                mysql("FLUSH PRIVILEGES")>>
         [] action = "delete_user" ->
              <<mysql("DROP USER IF EXISTS"), mysql("FLUSH PRIVILEGES")>>
         [] action = "change_password" ->
              <<mysql("ALTER USER IDENTIFIED BY"), mysql("FLUSH PRIVILEGES")>>
         [] action = "grant_privileges" ->
              <<mysql("GRANT ON *.*"), mysql("FLUSH PRIVILEGES")>>
         [] OTHER -> <<mysql("SELECT FROM mysql.user")>>

\* a switch whose unmatched action leaves the function without a value
unmatchedUndefined(dbType, action) == Undefined

\* no case of the switch returned, or neither branch was taken: the throw
\* at the end of the function
unmatched(dbType, action) == Threw("Unsupported database type")

generateDatabaseCommands(build, dbType, action, params) ==
    IF dbType = "postgresql" /\ action \in Actions
    THEN Returned(postgresqlCommands(build, action, params.username))
    ELSE IF dbType = "mysql" /\ action \in Actions
    THEN Returned(mysqlCommands(build, action, params.username,
                                params.masterPassword))
    ELSE unmatched(dbType, action)

\* GET /:instanceId/database: the commands that fetch the database logs
databaseLogCommands(dbType, masterPassword) ==
    LET sh(stmt) == Command("sh", stmt, "", <<>>)
    IN IF dbType = "postgresql"
       THEN Returned(<<sh("tail postgresql log"),
                       sh("systemctl status postgresql"),
                       Command("postgres", "SELECT FROM pg_stat_activity",
                               "", <<>>)>>)
       ELSE IF dbType = "mysql"
       THEN Returned(<<sh("tail mysqld.log"), sh("systemctl status mysqld"),
                       Command("mysql", "SHOW PROCESSLIST", "",
                               masterPassword)>>)
       ELSE Undefined

\* generateUserData: the parts of the script it returns
generateUserData(build, dbType) ==
    LET script(parts) == [kind |-> "script", commands |-> parts]
    IN IF dbType \in Engines
       THEN (IF build = "direct"
             THEN script(<<"baseScript", dbType>>)
             ELSE script(<<"baseScript", "ssmScript", dbType>>))
       ELSE IF build = "direct" THEN Undefined
       ELSE Threw("Unsupported database type")

\* The database of the host, as far as one user name goes: whether the role
\* exists and which kinds of grant it holds.  PostgreSQL refuses to drop a
\* role that still holds a grant; MySQL drops an account with its grants.
GrantKinds == {"tables", "schema", "defaults", "global"}

hostEmpty(engine) == [engine |-> engine, role |-> FALSE, grants |-> {}]

\* one command run on the host
Apply(h, c) ==
    LET grant(kind) == IF h.role THEN [h EXCEPT !.grants = @ \cup {kind}]
                       ELSE h
        revoke(kind) == [h EXCEPT !.grants = @ \ {kind}]
    IN CASE c.run = "postgres" /\ c.stmt \in {"createuser",
                                              "CREATE USER WITH PASSWORD"} ->
              [h EXCEPT !.role = TRUE]
         [] c.run = "postgres" /\ c.stmt = "GRANT ON ALL TABLES" ->
              grant("tables")
         [] c.run = "postgres" /\ c.stmt = "GRANT USAGE ON SCHEMA" ->
              grant("schema")
         [] c.run = "postgres" /\ c.stmt = "ALTER DEFAULT PRIVILEGES GRANT" ->
              grant("defaults")
         [] c.run = "postgres"
            /\ c.stmt = "REVOKE ALL PRIVILEGES ON ALL TABLES" ->
              revoke("tables")
         [] c.run = "postgres" /\ c.stmt = "REVOKE USAGE ON SCHEMA" ->
              revoke("schema")
         [] c.run = "postgres" /\ c.stmt \in {"dropuser",
                                              "DROP USER IF EXISTS"} ->
              IF h.grants = {} THEN [h EXCEPT !.role = FALSE] ELSE h
         [] c.run = "mysql" /\ c.stmt = "CREATE USER" ->
              [h EXCEPT !.role = TRUE]
         [] c.run = "mysql" /\ c.stmt = "GRANT ON *.*" -> grant("global")
         [] c.run = "mysql" /\ c.stmt = "DROP USER IF EXISTS" ->
              [h EXCEPT !.role = FALSE, !.grants = {}]
         [] OTHER -> h

\* the commands of one request run in order; a failing command does not
\* stop the ones after it
RECURSIVE Run(_, _)
Run(h, commands) ==
    IF commands = <<>> THEN h
    ELSE Run(Apply(h, Head(commands)), Tail(commands))

genIdle ==
    [pc |-> "idle", build |-> "none", databaseType |-> "none",
     action |-> "none",
     params |-> [username |-> "", password |-> "", privileges |-> <<>>,
                 masterPassword |-> <<>>],
     result |-> Undefined]

\* the provider calls of createSecurityGroup, in the order it sends them
createSecurityGroup ==
    <<"CreateSecurityGroup", "AuthorizeSecurityGroupIngress">>

bootIdle ==
    [pc |-> "idle", build |-> "none", databaseType |-> "none",
     result |-> Undefined, calls |-> <<>>, failed |-> FALSE]

\* generateDatabaseCommands(databaseType, action, params) is called.  Only
\* the mysql branch reads masterPassword.
Generate(build, dbType, action, params) ==
    /\ gen.pc = "idle"
    /\ boot.pc = "idle"
    /\ dbType # "mysql" => params.masterPassword = <<>>
    /\ gen' = [pc |-> "generated", build |-> build,
               databaseType |-> dbType, action |-> action,
               params |-> params,
               result |-> generateDatabaseCommands(build, dbType,
                                                   action, params)]
    /\ UNCHANGED <<host, boot, dispatchVars, lifecycleVars, userVars,
                   answerVars>>

\* GET /:instanceId/database builds its commands
DatabaseLogs(dbType, masterPassword) ==
    /\ gen.pc = "idle"
    /\ boot.pc = "idle"
    /\ gen' = [genIdle EXCEPT
                 !.pc = "generated", !.build = "logs",
                 !.databaseType = dbType, !.action = "database_logs",
                 !.params.masterPassword = masterPassword,
                 !.result = databaseLogCommands(dbType, masterPassword)]
    /\ UNCHANGED <<host, boot, dispatchVars, lifecycleVars, userVars,
                   answerVars>>

\* the generated commands run on the host
Execute ==
    /\ gen.pc = "generated"
    /\ gen.result.kind = "commands"
    /\ gen.databaseType = host.engine
    /\ host' = Run(host, gen.result.commands)
    /\ gen' = [gen EXCEPT !.pc = "executed"]
    /\ UNCHANGED <<boot, dispatchVars, lifecycleVars, userVars,
                   answerVars>>

GenDone ==
    /\ gen.pc \in {"generated", "executed"}
    /\ gen' = genIdle
    /\ UNCHANGED <<host, boot, dispatchVars, lifecycleVars, userVars,
                   answerVars>>

\* launchInstance, first part: await this.createSecurityGroup(vpcId,
\* databaseType, databasePort) has sent its two commands
LaunchBegin(build, dbType) ==
    /\ gen.pc = "idle"
    /\ boot.pc = "idle"
    /\ boot' = [bootIdle EXCEPT !.pc = "grouped", !.build = build,
                                !.databaseType = dbType,
                                !.calls = createSecurityGroup]
    /\ UNCHANGED <<gen, host, dispatchVars, lifecycleVars, userVars,
                   answerVars>>

\* second part: this.generateUserData(databaseType, ...) is called; with a
\* script RunInstancesCommand is sent; when generateUserData throws, or
\* returns undefined and Buffer.from(userData) throws, launchInstance fails
\* there
PlanBoot ==
    /\ boot.pc = "grouped"
    /\ LET r == generateUserData(boot.build, boot.databaseType)
       IN boot' = [boot EXCEPT
                     !.pc = "done", !.result = r,
                     !.failed = (r.kind # "script"),
                     !.calls = IF r.kind = "script"
                               THEN Append(@, "RunInstances") ELSE @]
    /\ UNCHANGED <<gen, host, dispatchVars, lifecycleVars, userVars,
                   answerVars>>

BootDone ==
    /\ boot.pc = "done"
    /\ boot' = bootIdle
    /\ UNCHANGED <<gen, host, dispatchVars, lifecycleVars, userVars,
                   answerVars>>

GenInit(engine) ==
    /\ gen = genIdle
    /\ boot = bootIdle
    /\ host = hostEmpty(engine)

NextGenerate ==
    \/ \E b \in GeneratorBuilds, e \in EngineInputs, a \in ActionInputs,
          p \in ParamInputs : Generate(b, e, a, p)
    \/ \E e \in Engines, p \in Passwords : DatabaseLogs(e, p)
    \/ Execute
    \/ GenDone
    \/ \E b \in Builds, e \in EngineInputs : LaunchBegin(b, e)
    \/ PlanBoot
    \/ BootDone

\* ---------------------------------------------- the result of a command
\* Three paths fetch the invocation of a command: getCommandResult of
\* AWSService, GET /:instanceId/commands/:commandId of routes/database.js,
\* which sends GetCommandInvocationCommand itself, and
\* GET /:instanceId/command/:commandId of routes/logs.js, which calls
\* getCommandResult.  The provider holds the invocation of the command
\* accepted last; for any other pair of handles it throws
\* InvocationDoesNotExist.

CommandHandles == {"cmd-1", "cmd-0"}
FetchPaths == {"getCommandResult", "commands", "command"}

frIdle ==
    [pc |-> "idle", path |-> "none", build |-> "none", commandId |-> "none",
     id |-> UnknownHandle, asked |-> 0, absent |-> FALSE, code |-> 0,
     error |-> "none", status |-> "none", reports |-> FALSE,
     isComplete |-> FALSE]

\* a test that takes every status but the two of a waiting command as final
isCompleteUnlessWaiting(status) == status \notin {"Pending", "InProgress"}

\* ['Success', 'Failed', 'Cancelled', 'TimedOut'].includes(status)
isComplete(status) ==
    status \in {"Success", "Failed", "Cancelled", "TimedOut"}

\* what the provider answers to GetCommandInvocationCommand: the status of
\* the invocation, "none" when it has none for the pair, "error" when the
\* call fails for another reason
GetCommandInvocation(commandId, id, fails) ==
    IF fails THEN "error"
    ELSE IF invocation # "none" /\ commandId = exec.handle /\ id = exec.target
    THEN invocation
    ELSE "none"

\* getCommandResult: the error of the provider is logged and thrown again
\* as it is, so the caller can tell InvocationDoesNotExist by its name; the
\* version of services/awsService.js returns the provider's result without
\* IsComplete
getCommandResult(build, answer) ==
    CASE answer = "error" ->
           [error |-> "ProviderAPIError", status |-> "none",
            reports |-> FALSE, isComplete |-> FALSE]
      [] answer = "none" ->
           [error |-> "CommandNotFound", status |-> "none",
            reports |-> FALSE, isComplete |-> FALSE]
      [] OTHER ->
           [error |-> "none", status |-> answer, reports |-> build # "direct",
            isComplete |-> build # "direct" /\ isComplete(answer)]

\* the answer of a path, from what the provider answered
Fetched(path, build, answer) ==
    LET r == getCommandResult(build, answer)
    IN CASE path = "getCommandResult" ->
              [code |-> 0, error |-> r.error, status |-> r.status,
               reports |-> r.reports, isComplete |-> r.isComplete]
         [] path = "commands" ->
              \* the route computes isComplete itself; its inner catch
              \* answers 404 for InvocationDoesNotExist and 500 otherwise
              IF answer = "none"
              THEN [code |-> 404, error |-> "CommandNotFound",
                    status |-> "none", reports |-> FALSE,
                    isComplete |-> FALSE]
              ELSE IF answer = "error"
              THEN [code |-> 500, error |-> "Failed", status |-> "none",
                    reports |-> FALSE, isComplete |-> FALSE]
              ELSE [code |-> 200, error |-> "none", status |-> answer,
                    reports |-> TRUE, isComplete |-> isComplete(answer)]
         [] OTHER ->
              \* the route answers the status without isComplete; its one
              \* catch answers 500 for every error
              IF r.error # "none"
              THEN [code |-> 500, error |-> "Failed", status |-> "none",
                    reports |-> FALSE, isComplete |-> FALSE]
              ELSE [code |-> 200, error |-> "none", status |-> r.status,
                    reports |-> FALSE, isComplete |-> FALSE]

\* a result is fetched for the pair (commandId, id).  The two routes load
\* the record first and answer 404 when there is none.
Fetch(path, build, commandId, id, fails) ==
    /\ fr.pc = "idle"
    /\ LET seen == [frIdle EXCEPT !.pc = "done", !.path = path,
                                  !.build = build, !.commandId = commandId,
                                  !.id = id]
       IN IF path # "getCommandResult" /\ id \notin Instances
          THEN fr' = [seen EXCEPT !.code = 404, !.error = "InstanceNotFound"]
          ELSE LET answer == GetCommandInvocation(commandId, id, fails)
                   f == Fetched(path, build, answer)
               IN fr' = [seen EXCEPT !.asked = 1,
                                     !.absent = (answer = "none"),
                                     !.code = f.code, !.error = f.error,
                                     !.status = f.status,
                                     !.reports = f.reports,
                                     !.isComplete = f.isComplete]
    /\ UNCHANGED <<out, dispatchVars, lifecycleVars, userVars, genVars>>

\* the caller has read the answer
FetchDone ==
    /\ fr.pc = "done"
    /\ fr' = frIdle
    /\ UNCHANGED <<out, dispatchVars, lifecycleVars, userVars, genVars>>

FetchInit == fr = frIdle

\* commands are sent and worked on by the agent while results are fetched
NextFetch ==
    \/ \E i \in Instances :
          executeCommand("direct", i,
                         [isArray |-> FALSE, text |-> "cmdA", items |-> <<>>],
                         "running", TRUE)
    \/ \E a \in BOOLEAN : Send(a)
    \/ AgentRuns
    \/ Settle
    \/ \E p \in FetchPaths, b \in Builds, c \in CommandHandles,
          i \in Handles, f \in BOOLEAN : Fetch(p, b, c, i, f)
    \/ FetchDone

\* -------------------------------------------------- what callers are sent
\* A text is a sequence of pieces; the characters of a password are pieces
\* of their own, so that a text can be searched for a password.  A response
\* body is the set of its text fields, each a pair of name and text, and its
\* listing of database users; a field that was deleted or never copied has
\* the value "".

outIdle(masterPassword) ==
    [pc |-> "idle", masterPassword |-> masterPassword, route |-> "none",
     code |-> 0, fields |-> {}, users |-> <<>>]

ResponseRoutes == {"instance", "connection", "users", "execute"}

\* the virtual connectionString: null without a public address
connectionString(engine, password, hasIp) ==
    IF ~hasIp THEN <<>>
    ELSE <<engine, "://", masterUsername, ":">> \o password
         \o <<"@", "publicIp", ":", "databasePort", "/",
              IF engine = "postgresql" THEN "postgres" ELSE "mysql">>

\* this.toObject({ virtuals: true })
toObject(id, password, hasIp) ==
    [fields |-> {<<"masterPassword", password>>,
                 <<"connectionString",
                   connectionString(databaseType[id], password, hasIp)>>},
     users |-> databaseUsers[id]]

\* toJSON: delete instance.masterPassword; delete user.password of each
\* database user
toJSON(id, password, hasIp) ==
    LET instance == toObject(id, password, hasIp)
    IN [fields |-> {f \in instance.fields : f[1] # "masterPassword"},
        users |-> [k \in DOMAIN instance.users |->
                     [instance.users[k] EXCEPT !.password = ""]]]

\* instance.databaseUsers.map(u => ({ username, privileges, createdAt }))
usersListing(id) ==
    [k \in DOMAIN databaseUsers[id] |->
       [username |-> databaseUsers[id][k].username,
        privileges |-> databaseUsers[id][k].privileges,
        password |-> ""]]

\* dbCommand of POST /:instanceId/execute
dbCommand(engine, password) ==
    IF engine = "postgresql"
    THEN <<"sudo -u postgres psql -c", "command">>
    ELSE <<"mysql -u", masterUsername, "-p">> \o replace(password)
         \o <<"-e", "command">>

Body(code, fields, users) ==
    [code |-> code, fields |-> fields, users |-> users]

\* the body a route answers with
Response(route, id, password, hasIp, ok) ==
    CASE route = "instance" ->
           LET j == toJSON(id, password, hasIp)
           IN Body(200, j.fields, j.users)
      [] route = "connection" ->
           IF ~hasIp THEN Body(400, {}, <<>>)
           ELSE Body(200,
                     {<<"connectionString",
                        connectionString(databaseType[id], password,
                                         hasIp)>>},
                     usersListing(id))
      [] route = "users" -> Body(200, {}, usersListing(id))
      [] OTHER ->
           IF db[id].status # "running" THEN Body(400, {}, <<>>)
           ELSE IF ~ok THEN Body(500, {}, <<>>)
           ELSE Body(200,
                     {<<"command", dbCommand(databaseType[id], password)>>},
                     <<>>)

\* a route answers; hasIp: the record has a public address; ok: its
\* executeCommand returned
Respond(route, hasIp, ok) ==
    /\ out.pc = "idle"
    /\ UsersReady
    /\ route # "execute" => ok
    /\ route \in {"users", "execute"} => hasIp
    /\ LET b == Response(route, "i-1", out.masterPassword, hasIp, ok)
       IN out' = [out EXCEPT !.pc = "done", !.route = route,
                             !.code = b.code, !.fields = b.fields,
                             !.users = b.users]
    /\ UNCHANGED <<fr, dispatchVars, lifecycleVars, userVars, genVars>>

\* the caller has read the body
RespondDone ==
    /\ out.pc = "done"
    /\ out' = outIdle(out.masterPassword)
    /\ UNCHANGED <<fr, dispatchVars, lifecycleVars, userVars, genVars>>

AnswersInit(masterPassword) == out = outIdle(masterPassword)

\* one instance is brought to running, database users are created on it,
\* and the routes answer
NextAnswers ==
    \/ ProviderStep("i-1")
    \/ ReadBegin("get", "i-1", TRUE)
    \/ ReadSave
    \/ ReadAnswered
    \/ \E u \in Usernames, body \in CreateBodies :
          UserBegin(1, "create", "current", "i-1", u, body)
    \/ UserDispatch(1)
    \/ \E ok \in BOOLEAN : UserSave(1, ok)
    \/ UserAnswered(1)
    \/ \E r \in ResponseRoutes, ip \in BOOLEAN, ok \in BOOLEAN :
          Respond(r, ip, ok)
    \/ RespondDone

Init ==
    /\ DispatchInit
    /\ LifecycleInit
    /\ UsersInit("postgresql", "current")
    /\ GenInit("postgresql")
    /\ FetchInit
    /\ AnswersInit(<<"a">>)

InitUsers ==
    /\ DispatchInit
    /\ LifecycleInit
    /\ \E e \in Engines, b \in UserBuilds : UsersInit(e, b)
    /\ GenInit("postgresql")
    /\ FetchInit
    /\ AnswersInit(<<"a">>)

InitGenerate ==
    /\ DispatchInit
    /\ LifecycleInit
    /\ UsersInit("postgresql", "current")
    /\ \E e \in Engines : GenInit(e)
    /\ FetchInit
    /\ AnswersInit(<<"a">>)

InitAnswers ==
    /\ DispatchInit
    /\ LifecycleInit
    /\ \E e \in Engines : UsersInit(e, "current")
    /\ GenInit("postgresql")
    /\ FetchInit
    /\ \E p \in Passwords : AnswersInit(p)

SpecDispatch == Init /\ [][NextDispatch]_vars

SpecLifecycle == Init /\ [][NextLifecycle]_vars

SpecUsers == InitUsers /\ [][NextUsers]_vars

SpecGenerate == InitGenerate /\ [][NextGenerate]_vars

SpecFetch == Init /\ [][NextFetch]_vars

SpecAnswers == InitAnswers /\ [][NextAnswers]_vars

\* ------------------------------------------------------------------ claims

\* C1: a dispatch for an instance whose provider state is not running, or
\* that the provider does not know, fails without contacting the
\* remote-execution API: no agent-registration query, no send-command.
C1_NoRemoteContactUnlessRunning ==
    exec.pc # "idle" /\ exec.providerState # "running" =>
        /\ exec.sends = 0
        /\ ssm.polls = 0
        /\ ssm.diags = 0
        /\ exec.pc \in {"returned", "failed"} => exec.pc = "failed"

\* C2: when the readiness wait of a dispatch fails, the dispatch fails with
\* that same error and no send-command request has been issued in it.
C2_NotReadyMeansNothingSent ==
    ssm.caller = "exec" /\ ssm.pc = "failed" =>
        /\ exec.sends = 0
        /\ exec.sent = <<>>
        /\ exec.pc \in {"wait", "failed"}
        /\ exec.pc = "failed" => exec.error = ssm.error

C2_Witness ==
    /\ exec.pc = "failed"
    /\ ssm.caller = "exec"
    /\ ssm.pc = "failed"
    /\ exec.error = "AgentNotReady"

\* C3: waitForSsmInstance never polls more than maxAttempts times, and the
\* first poll that observes the handle Online ends it with success: that
\* poll is the last one and no sleep follows it.
C3_ReadyOnFirstOnlinePoll ==
    /\ ssm.polls <= ssm.maxAttempts
    /\ ssm.firstOnline # 0 =>
           /\ ssm.pc = "ready"
           /\ ssm.polls = ssm.firstOnline
           /\ ~ssm.sleptAfterPoll
           /\ ssm.sleeps = ssm.polls - 1

C3_Witness ==
    /\ ssm.pc = "ready"
    /\ ssm.maxAttempts = MaxAttempts
    /\ ssm.firstOnline = ssm.maxAttempts
    /\ ssm.polls >= 2

\* C4: (waitForSsmInstance of EC2Instance.js 795-862) a call with
\* maxAttempts >= 1 in which no poll observed the handle Online ends with
\* AgentNotReady after exactly maxAttempts polls.
C4_ExhaustionIsAgentNotReady ==
    /\ ssm.build = "waitOnline"
    /\ ssm.pc \in {"ready", "failed"}
    /\ ssm.firstOnline = 0
    /\ ssm.maxAttempts >= 1
    => /\ ssm.pc = "failed"
       /\ ssm.error = "AgentNotReady"
       /\ ssm.polls = ssm.maxAttempts

C4_Witness ==
    /\ ssm.build = "waitOnline"
    /\ ssm.caller = "direct"
    /\ ssm.pc = "failed"
    /\ ssm.maxAttempts = 3
    /\ ssm.polls = 3
    /\ ssm.lastPoll = "absent"

\* C5: a poll that throws is not fatal: it consumes one attempt and polling
\* goes on, so the wait never ends in the poll's own error, and when it ends
\* after a throwing poll it ends in AgentNotReady with the budget used up.
C5_PollErrorIsNotFatal ==
    /\ ssm.error # "PollError"
    /\ ssm.lastPoll = "error" =>
           /\ ssm.attempt = ssm.polls
           /\ ssm.pc = "failed" =>
                  ssm.error = "AgentNotReady" /\ ssm.polls = ssm.maxAttempts

\* C6: a dispatch issues at most one send-command request, never a second
\* one; the request carries the whole command list in the caller's order;
\* the dispatch is over, handle in hand, the moment the request is accepted,
\* whatever the state of the invocation.
C6_OneRequestWholeList ==
    /\ exec.sends <= 1
    /\ exec.sends = 1 =>
           /\ exec.pc \in {"returned", "failed"}
           /\ exec.target = exec.id
           /\ IF exec.commands.isArray
              THEN exec.sent = exec.commands.items
              ELSE exec.sent = <<exec.commands.text>>
    /\ exec.pc = "returned" => exec.sends = 1 /\ exec.handle # "none"

C6_Witness ==
    /\ exec.pc = "returned"
    /\ invocation = "Pending"
    /\ Len(exec.sent) = 2
    /\ exec.sent[1] # exec.sent[2]

\* C7: start on a record whose status is running, and stop on one whose
\* status is stopped, are answered 400 (invalid transition), make no provider
\* call and leave the record as it was.
C7_NoCallWhenAlreadyThere ==
    (\/ last.op = "start" /\ last.before = "running"
     \/ last.op = "stop" /\ last.before = "stopped")
    => /\ last.code = 400
       /\ last.calls = <<>>
       /\ last.after = last.before
       /\ last.termAfter = last.termBefore
       /\ db[last.id].status = last.before

C7_Witness ==
    /\ last.op = "start"
    /\ last.before = "running"
    /\ last.code = 400
    /\ ec2[last.id] = "running"

\* C8: terminate is never turned away because of the record's status: for
\* each of the six statuses the provider's terminate call is made, and once
\* it has returned the record holds status terminating and the current time
\* as its termination timestamp.
C8_TerminateAlwaysAccepted ==
    last.op = "terminate" /\ last.id \in Instances =>
        /\ last.code \in {200, 500}
        /\ last.calls = <<"terminate">>
        /\ last.code = 200 =>
               /\ last.after = "terminating"
               /\ db[last.id].status = "terminating"
               /\ last.termAfter = now
               /\ db[last.id].terminationTime = now

C8_Witness ==
    /\ last.op = "terminate"
    /\ last.before = "terminated"
    /\ last.code = 200
    /\ last.after = "terminating"
    /\ last.termBefore # 0
    /\ last.termAfter > last.termBefore

\* C9: in no step does a record's status go from running straight to stopped
\* or terminated, or from stopped straight to running.
C9_NoSkippedTransitionalState ==
    [][\A i \in Instances :
         /\ ~(db[i].status = "running"
              /\ db'[i].status \in {"stopped", "terminated"})
         /\ ~(db[i].status = "stopped" /\ db'[i].status = "running")]_vars

\* C10: a record whose status is terminated keeps that status in every step.
C10_TerminatedIsTerminal ==
    [][\A i \in Instances :
         db[i].status = "terminated" => db'[i].status = "terminated"]_vars

\* C11: a read (list or get) whose describe call fails still answers 200,
\* serves each loaded record with the status the database holds, and stores
\* nothing.
C11_DescribeFailureSwallowed ==
    [][rd.pc = "idle" /\ rd'.pc = "done" /\ rd'.failed =>
         /\ rd'.code = 200
         /\ rd'.stored = {}
         /\ rd'.served =
                Loaded(rd'.op, rd'.id, [i \in Instances |-> db[i].status])
         /\ db' = db]_vars

C11_Witness ==
    /\ rd.pc = "done"
    /\ rd.failed
    /\ rd.op = "list"
    /\ rd.code = 200
    /\ \E i \in Instances : rd.served[i] = "pending" /\ ec2[i] = "running"

\* C12: when a list whose describe call succeeded has answered, every record
\* the provider reported holds the reported state as its status.
C12_ListStoresReportedState ==
    rd.pc = "done" /\ rd.op = "list" /\ ~rd.failed =>
        \A i \in Instances :
            rd.aws[i] # "none" => db[i].status = rd.aws[i]

\* C13: a delete request that names the master user is always turned away:
\* it never gets past the checks, dispatches nothing and leaves the stored
\* databaseUsers array as it was, listed there or not, running or not.
C13_MasterUserProtected ==
    \A r \in Callers :
        /\ req[r].op = "delete"
        /\ req[r].username = masterUsername
        /\ req[r].pc # "idle"
        => /\ req[r].pc = "done"
           /\ req[r].code \in {400, 404}
           /\ req[r].sends = 0
           /\ ~req[r].wrote

C13_Witness ==
    /\ req[1].pc = "done"
    /\ req[1].op = "delete"
    /\ req[1].username = masterUsername
    /\ req[1].error = "MasterUser"
    /\ db["i-1"].status = "running"
    /\ findIndex(databaseUsers["i-1"], masterUsername) # 0

\* C14: no two entries of a databaseUsers array have the same username.
C14_UsernamesUnique ==
    \A i \in Instances :
        \A j, k \in 1..Len(databaseUsers[i]) :
            j # k => databaseUsers[i][j].username # databaseUsers[i][k].username

\* C15: every step that changes a stored databaseUsers array is the save
\* of a request whose dispatch has been attempted; no check and no dispatch
\* changes it.
C15_MutatedOnlyAfterDispatch ==
    [][databaseUsers' # databaseUsers =>
         \E r \in Callers :
             /\ req[r].pc = "dispatched"
             /\ req[r].sends = 1
             /\ req'[r].pc = "done"]_vars

C15_Witness ==
    /\ req[1].pc = "done"
    /\ req[1].op = "update"
    /\ req[1].wrote
    /\ req[1].sends = 1
    /\ req[1].code = 200

\* C16: once the delete_user commands of the generator have run on the
\* host, the role is gone and holds no grant of any kind, whatever
\* create_user and grant_privileges commands ran before.
C16_DeleteLeavesNoGrant ==
    /\ gen.pc = "executed"
    /\ gen.build = "current"
    /\ gen.action = "delete_user"
    => ~host.role /\ host.grants = {}

\* C17: for postgresql, create_user yields exactly five commands: create
\* role, set password, grant table privileges, grant schema usage, alter
\* default privileges, in this order.
C17_PostgresqlCreateFiveCommands ==
    /\ gen.pc # "idle"
    /\ gen.databaseType = "postgresql"
    /\ gen.action = "create_user"
    => /\ gen.result.kind = "commands"
       /\ [k \in DOMAIN gen.result.commands |-> gen.result.commands[k].stmt]
              \in {<<"createuser", "ALTER ROLE WITH PASSWORD",
                     "GRANT ON ALL TABLES", "GRANT USAGE ON SCHEMA",
                     "ALTER DEFAULT PRIVILEGES GRANT">>}

\* C18: the generator throws for an engine other than postgresql and mysql
\* and for an action other than the five it knows, and returns no command
\* then; for a supported engine and action it returns a list of commands
\* that is not empty.
C18_UnsupportedThrows ==
    gen.pc # "idle" /\ gen.action # "database_logs" =>
        IF gen.databaseType \in Engines /\ gen.action \in Actions
        THEN gen.result.kind = "commands" /\ gen.result.commands # <<>>
        ELSE /\ gen.result.kind = "Unsupported database type"
             /\ gen.result.commands = <<>>

C18_Witness ==
    /\ gen.pc = "generated"
    /\ gen.databaseType = "mysql"
    /\ gen.action = "rename_user"
    /\ gen.result.kind = "Unsupported database type"

\* e is p with a backslash before every quote, dollar, backtick and
\* backslash, and nothing else changed
RECURSIVE C19_IsEscapingOf(_, _)
C19_IsEscapingOf(e, p) ==
    IF p = <<>> THEN e = <<>>
    ELSE IF Head(p) \in {"quote", "dollar", "backtick", "backslash"}
    THEN /\ Len(e) >= 2
         /\ e[1] = "backslash"
         /\ e[2] = Head(p)
         /\ C19_IsEscapingOf(SubSeq(e, 3, Len(e)), Tail(p))
    ELSE /\ Len(e) >= 1
         /\ e[1] = Head(p)
         /\ C19_IsEscapingOf(Tail(e), Tail(p))

\* C19: every mysql command of the generator of routes/database.js and of
\* the database-log route carries the root password with each quote,
\* dollar, backtick and backslash escaped and nothing else altered.
C19_RootPasswordEscaped ==
    /\ gen.pc # "idle"
    /\ gen.build \in {"current", "logs"}
    /\ gen.result.kind = "commands"
    => \A k \in DOMAIN gen.result.commands :
           gen.result.commands[k].run = "mysql" =>
               C19_IsEscapingOf(gen.result.commands[k].embedded,
                                IF gen.build = "logs"
                                THEN gen.params.masterPassword
                                ELSE rootPassword(gen.params.masterPassword))

\* C20: generateUserData throws for an engine other than postgresql and
\* mysql; it returns neither a script nor nothing.
C20_UnsupportedEngineThrows ==
    boot.pc = "done" /\ boot.databaseType \notin Engines =>
        boot.result.kind = "Unsupported database type"

\* C24: a start the route does not reject as already running, and whose
\* provider call succeeds, leaves the record pending; a stop not rejected
\* as already stopped leaves it stopping; this whatever the status was
\* before, and with exactly one provider call, of the action's kind.  The
\* routes reject on no other status.
C24_StatusByActionAlone ==
    last.op \in {"start", "stop"} /\ last.id \in Instances =>
        /\ last.code = 400 <=>
               last.before = (IF last.op = "start" THEN "running"
                              ELSE "stopped")
        /\ last.code = 200 =>
               /\ last.after = (IF last.op = "start" THEN "pending"
                                ELSE "stopping")
               /\ db[last.id].status = last.after
               /\ last.calls = <<last.op>>

C24_Witness ==
    /\ last.op = "start"
    /\ last.code = 200
    /\ last.before = "stopping"
    /\ db[last.id].status = "pending"

\* C26: when the provider call of start, stop or terminate has failed, the
\* record holds the status and the termination time it held before the
\* request; the call was made, and nothing was stored before or after it.
C26_FailedCallStoresNothing ==
    last.op \in {"start", "stop", "terminate"} /\ last.code = 500 =>
        /\ last.calls = <<last.op>>
        /\ db[last.id].status = last.before
        /\ db[last.id].terminationTime = last.termBefore
        /\ last.after = last.before
        /\ last.termAfter = last.termBefore

C26_Witness ==
    /\ last.op = "terminate"
    /\ last.code = 500
    /\ last.calls = <<"terminate">>
    /\ db[last.id].status = "running"

\* C28: a read that loaded a record and the provider's state before a
\* lifecycle action on that instance was accepted leaves the status that
\* action stored: when the read saves, a record whose status is no longer
\* the one the read loaded keeps its status.
C28_StaleReadKeepsNewerStatus ==
    [][rd.pc = "fetched" /\ rd'.pc = "done" =>
          \A i \in Instances :
              rd.doc[i] # "none" /\ db[i].status # rd.doc[i] =>
                  db'[i].status = db[i].status]_vars

\* C25: a create_user request whose dispatch was attempted and failed has
\* added its user to databaseUsers exactly when the instance's engine is
\* postgresql; for mysql the request has failed.
C25_RecordedOnFailureIffPostgresql ==
    \A r \in Callers :
        /\ req[r].pc = "done"
        /\ req[r].op = "create"
        /\ req[r].sends > 0
        /\ ~req[r].ok
        => /\ req[r].wrote <=> databaseType[req[r].id] = "postgresql"
           /\ databaseType[req[r].id] = "mysql" => req[r].code = 500

\* C27: no entry of databaseUsers of any instance carries the instance's
\* master username.
C27_MasterNeverListed ==
    \A i \in Instances :
        \A k \in DOMAIN databaseUsers[i] :
            databaseUsers[i][k].username # masterUsername

\* C29: of two create_user requests for the same username on the same
\* instance that have both loaded the record and passed the existence
\* check, at most one dispatches its commands, and once one of them has
\* added its entry the username is listed once.
C29_InterleavedCreatesAddOnce ==
    \A r, c \in Callers :
        /\ r # c
        /\ req[r].op = "create" /\ req[c].op = "create"
        /\ req[r].pc \in {"loaded", "dispatched", "done"}
        /\ req[c].pc \in {"loaded", "dispatched", "done"}
        /\ req[r].code \in {0, 201, 202} /\ req[c].code \in {0, 201, 202}
        /\ req[r].id = req[c].id
        /\ req[r].username = req[c].username
        => /\ req[r].sends + req[c].sends <= 1
           /\ Cardinality({k \in DOMAIN databaseUsers[req[r].id] :
                              databaseUsers[req[r].id][k].username
                                  = req[r].username}) <= 1

\* C30: a launchInstance for an engine other than postgresql and mysql has
\* failed without having sent any command to the provider: no security
\* group created, no ingress rule authorized, no instance launched.
C30_UnsupportedLaunchCallsNothing ==
    boot.pc = "done" /\ boot.databaseType \notin Engines =>
        boot.failed /\ boot.calls = <<>>

\* text s holds text p as a run of pieces
C21_Contains(s, p) ==
    \E k \in 0..(Len(s) - Len(p)) : SubSeq(s, k + 1, k + Len(p)) = p

\* C21: no response body holds the master password in plain text in any
\* of its fields (the serialized instance with its connectionString, the
\* connection info, the echoed command) or a database user's password in
\* its listing of users.
C21_NoPlaintextPasswordSent ==
    out.pc = "done" =>
        /\ \A f \in out.fields : ~C21_Contains(f[2], out.masterPassword)
        /\ \A k \in DOMAIN out.users : out.users[k].password = ""

\* C22: a fetch that reports isComplete reports TRUE exactly for the
\* statuses Success, Failed, Cancelled and TimedOut; getCommandResult of
\* models/EC2Instance.js and the route of routes/database.js report it
\* whenever they answer a status; and a fetch changes neither the
\* invocation nor the activations nor any record.
C22_CompleteExactlyWhenFinal ==
    [][fr.pc = "idle" /\ fr'.pc = "done" =>
          /\ fr'.status # "none" =>
                 /\ fr'.status \in InvocationStatuses
                 /\ fr'.status = invocation
                 /\ fr'.path = "commands"
                    \/ (fr'.path = "getCommandResult" /\ fr'.build # "direct")
                    => fr'.reports
          /\ fr'.reports =>
                 (fr'.isComplete <=>
                      fr'.status \in {"Success", "Failed", "Cancelled",
                                      "TimedOut"})
          /\ UNCHANGED <<dispatchVars, lifecycleVars, userVars>>]_vars

C22_Witness ==
    /\ fr.pc = "done"
    /\ fr.path = "commands"
    /\ fr.status = "TimedOut"
    /\ fr.reports
    /\ fr.isComplete

\* C23: on every path, a fetch for a pair of handles the provider has no
\* invocation for ends with the CommandNotFound condition, which a fetch
\* that failed for another reason never ends with.
C23_AbsentIsCommandNotFound ==
    fr.pc = "done" /\ fr.asked > 0 =>
        (fr.absent <=> fr.error = "CommandNotFound")

====
